---------------------------- MODULE Spec2Model ----------------------------
(***************************************************************************)
(* Conway's Game of Life on a sparse board with a bounded undo history:    *)
(* a model of src/src/game_of_life.rs (struct GameOfLife) and of the       *)
(* patterns its integration tests (src/tests/game_of_life.rs) run.         *)
(*                                                                         *)
(* A board is the pair (state, history): `state` is the HashSet of live    *)
(* cells, `history` the VecDeque of snapshots, oldest first.               *)
(***************************************************************************)
EXTENDS Integers, Sequences, FiniteSets

(***************************************************************************)
(* Program constants.                                                      *)
(***************************************************************************)
HISTORY_LIMIT == 255

I32_MAX == 2147483647

I32_MIN == (-I32_MAX) - 1

(***************************************************************************)
(* Bounds of the model.                                                    *)
(***************************************************************************)
\* Spec: cells are edited at the coordinates (0..MaxX) x {0, 1}.
MaxX == 1

\* Spec: at most MaxEdits calls of set/unset/toggle/clear, MaxTicks of tick.
MaxEdits == 3

MaxTicks == 2

\* Every specification: at most MaxFailedUndos calls of undo in a row that
\* find the history empty.
MaxFailedUndos == 1

\* SpecTick: the boards ticked are the subsets of (0..MaxTickX) x {0, 1, 2}.
MaxTickX == 2

\* SpecLong: at most HISTORY_LIMIT + ExtraTicksLong calls of tick.
ExtraTicksLong == 2

\* SpecLong: at most MaxEditsLong edits, none after tick number EditTicksLong.
MaxEditsLong == 1

EditTicksLong == 1

\* SpecOsc: at most MaxTicksOsc calls of tick.
MaxTicksOsc == 16

\* SpecView: cells and cells_at are called with widths and heights in
\* -1..MaxDim, and with BigDim, a width whose square is beyond i32.
MaxDim == 2

BigDim == 65536

\* SpecView: the endpoints of a viewport's ranges are in -1..MaxView.
MaxView == 1

(***************************************************************************)
(* i32 arithmetic of `x + dx` for dx in -1..1: the sum overflows at the    *)
(* ends of the range; a release build wraps it around, a debug build       *)
(* panics.                                                                 *)
(***************************************************************************)
overflows(x, d) == (d = 1 /\ x = I32_MAX) \/ (d = -1 /\ x = I32_MIN)

wrapping_add(x, d) ==
    IF d = 1 /\ x = I32_MAX THEN I32_MIN
    ELSE IF d = -1 /\ x = I32_MIN THEN I32_MAX
    ELSE x + d

(***************************************************************************)
(* The sparse board.                                                       *)
(***************************************************************************)
get(s, x, y) == <<x, y>> \in s

set(s, x, y) == s \cup {<<x, y>>}

\* A slip: the row y is cleared, not the one cell.
unset_row(s, x, y) == {c \in s : c[2] # y}

unset(s, x, y) == s \ {<<x, y>>}

clear(s) == {}

\* A slip: toggle returns the liveness it found, not the new one.
toggle_returns_old(s, x, y) ==
    IF get(s, x, y)
    THEN [ret |-> TRUE, state |-> unset(s, x, y)]
    ELSE [ret |-> FALSE, state |-> set(s, x, y)]

\* toggle returns the new liveness and the new live-cell set.
toggle(s, x, y) ==
    IF get(s, x, y)
    THEN [ret |-> FALSE, state |-> unset(s, x, y)]
    ELSE [ret |-> TRUE, state |-> set(s, x, y)]

(***************************************************************************)
(* The transition engine.                                                  *)
(***************************************************************************)
\* The (dx, dy) the two nested loops of get_neighbors visit, in their order:
\* dy outermost, (0, 0) skipped.
NeighborOffsets ==
    << <<-1, -1>>, <<0, -1>>, <<1, -1>>,
       <<-1, 0>>,             <<1, 0>>,
       <<-1, 1>>,  <<0, 1>>,  <<1, 1>> >>

get_neighbors(x, y) ==
    [i \in 1..Len(NeighborOffsets) |->
        <<wrapping_add(x, NeighborOffsets[i][1]),
          wrapping_add(y, NeighborOffsets[i][2])>>]

\* Whether get_neighbors(x, y) evaluates an overflowing sum.
neighbors_overflow(x, y) ==
    \E i \in 1..Len(NeighborOffsets) :
        overflows(x, NeighborOffsets[i][1]) \/ overflows(y, NeighborOffsets[i][2])

\* A slip: only the live cells themselves are candidates.
candidates_live_only(s) == s

\* `neighbors` of tick: the union of the neighbours of every live cell.
candidates(s) ==
    UNION { LET neighbors == get_neighbors(c[1], c[2])
            IN  {neighbors[i] : i \in DOMAIN neighbors} : c \in s }

\* The entries of get_neighbors(x, y) that are alive, counted as the iterator
\* counts them: one per entry of the vector.
live_neighbor_count(s, x, y) ==
    LET neighbors == get_neighbors(x, y)
    IN  Cardinality({i \in DOMAIN neighbors : get(s, neighbors[i][1], neighbors[i][2])})

\* A slip: the arm (4.., true) => false is missing.
rule_no_overpopulation(count, alive) ==
    (alive /\ count >= 2) \/ (~alive /\ count = 3)

\* The match of tick on (live_neighbor_count, alive).
rule(count, alive) ==
    CASE alive /\ count \in 0..1 -> FALSE
      [] alive /\ count \in 2..3 -> TRUE
      [] alive /\ count >= 4     -> FALSE
      [] ~alive /\ count = 3     -> TRUE
      [] OTHER                   -> FALSE

\* The live-cell set tick assigns to self.state.
tick_state(s) ==
    {c \in candidates(s) : rule(live_neighbor_count(s, c[1], c[2]), get(s, c[1], c[2]))}

\* Whether tick on s evaluates an overflowing sum.
tick_overflows(s) ==
    \/ \E c \in s : neighbors_overflow(c[1], c[2])
    \/ \E c \in candidates(s) : neighbors_overflow(c[1], c[2])

(***************************************************************************)
(* The history buffer.                                                     *)
(***************************************************************************)
pop_front(h) == Tail(h)

push_back(h, s) == Append(h, s)

\* A slip: the oldest entry is taken, not the newest.
pop_back_oldest(h) == [value |-> h[1], rest |-> Tail(h)]

\* VecDeque::pop_back on a non-empty deque: the value and what is left.
pop_back(h) == [value |-> h[Len(h)], rest |-> SubSeq(h, 1, Len(h) - 1)]

\* A slip: nothing is evicted.
snapshot_no_eviction(h, s) == push_back(h, s)

\* A slip: a full history gives up its newest snapshot, not its oldest.
snapshot_evicts_newest(h, s) ==
    push_back(IF Len(h) = HISTORY_LIMIT THEN SubSeq(h, 1, Len(h) - 1) ELSE h, s)

\* A slip: a full history keeps what it holds and drops the new snapshot.
snapshot_drops_newest(h, s) ==
    IF Len(h) = HISTORY_LIMIT THEN h ELSE push_back(h, s)

\* A slip: the history is trimmed one entry early.
snapshot_evicts_early(h, s) ==
    push_back(IF Len(h) >= HISTORY_LIMIT - 1 THEN pop_front(h) ELSE h, s)

snapshot(h, s) ==
    push_back(IF Len(h) = HISTORY_LIMIT THEN pop_front(h) ELSE h, s)

can_undo(h) == h # << >>

\* A slip: the snapshot is restored and left in the history.
undo_keeps_snapshot(s, h) ==
    IF h # << >>
    THEN [ret |-> TRUE, state |-> h[Len(h)], history |-> h]
    ELSE [ret |-> FALSE, state |-> s, history |-> h]

\* undo on the board (s, h): the value returned and the board left.
undo(s, h) ==
    IF h # << >>
    THEN [ret |-> TRUE, state |-> pop_back(h).value, history |-> pop_back(h).rest]
    ELSE [ret |-> FALSE, state |-> s, history |-> h]

(***************************************************************************)
(* Values of type GameOfLife: new, clone and the derived ==.               *)
(***************************************************************************)
new == [state |-> {}, history |-> << >>]

clone(s, h) == [state |-> s, history |-> h]

\* #[derive(PartialEq, Eq)]: field by field, over both fields.
eq(a, b) == a.state = b.state /\ a.history = b.history

(***************************************************************************)
(* i32 arithmetic of cells_at: `width * height` of two non-negative        *)
(* numbers and `origin + offset`.  A debug build panics on overflow, a     *)
(* release build keeps the low 32 bits.                                    *)
(***************************************************************************)
add_overflows(a, b) ==
    (b > 0 /\ a > I32_MAX - b) \/ (b < 0 /\ a < I32_MIN - b)

wrapping_add32(a, b) ==
    IF b > 0 /\ a > I32_MAX - b THEN (a + I32_MIN) + (b + I32_MIN)
    ELSE IF b < 0 /\ a < I32_MIN - b THEN (a - I32_MIN) + (b - I32_MIN)
    ELSE a + b

mul_overflows(a, b) == a > 0 /\ b > I32_MAX \div a

RECURSIVE wrapping_mul(_, _)
wrapping_mul(a, b) ==
    IF b = 0 THEN 0
    ELSE LET half == wrapping_mul(a, b \div 2)
             twice == wrapping_add32(half, half)
         IN  IF b % 2 = 1 THEN wrapping_add32(twice, a) ELSE twice

(***************************************************************************)
(* cells and cells_at.  The outcome of a call: the panic message, or ""    *)
(* and the buffer returned.                                                *)
(***************************************************************************)
Panic(message) == [panic |-> message, cells |-> << >>]

Returned(buffer) == [panic |-> "", cells |-> buffer]

\* The allocation and the two loops: entry y * width + x (from 0) is
\* get(origin_x + x, origin_y + y) as u8.  When width * height overflows,
\* a debug build panics at the product; a release build allocates the
\* wrapped product as usize (a negative one is beyond the capacity of a
\* Vec) and, the buffer being shorter than width * height, indexes past
\* its end.
serialize(s, width, height, origin_x, origin_y, build) ==
    IF mul_overflows(width, height)
    THEN IF build = "debug" THEN Panic("attempt to multiply with overflow")
         ELSE IF wrapping_mul(width, height) < 0 THEN Panic("capacity overflow")
         ELSE Panic("index out of bounds")
    ELSE IF /\ build = "debug"
            /\ width > 0
            /\ height > 0
            /\ \/ add_overflows(origin_x, width - 1)
               \/ add_overflows(origin_y, height - 1)
    THEN Panic("attempt to add with overflow")
    ELSE Returned([idx \in 1..(width * height) |->
            LET x == (idx - 1) % width
                y == (idx - 1) \div width
            IN  IF get(s, wrapping_add32(origin_x, x),
                          wrapping_add32(origin_y, y))
                THEN 1 ELSE 0])

\* A slip: a negative width or height is taken as an empty viewport.
cells_at_clamped(s, width, height, origin_x, origin_y, build) ==
    IF ~(width >= 0 /\ height >= 0)
    THEN Returned(<< >>)
    ELSE serialize(s, width, height, origin_x, origin_y, build)

cells_at(s, width, height, origin_x, origin_y, build) ==
    IF ~(width >= 0 /\ height >= 0)
    THEN Panic("width and height must be non-negative")
    ELSE serialize(s, width, height, origin_x, origin_y, build)

cells(s, width, height, build) == cells_at(s, width, height, 0, 0, build)

(***************************************************************************)
(* Viewport: a range is the pair <<start, end>> of a RangeInclusive<i32>.  *)
(* The text rendered is the sequence of its characters.                    *)
(***************************************************************************)
\* A slip: the bounds are taken as given.
ordered_bounds_as_given(range) == range

ordered_bounds(range) ==
    LET start == range[1]
        end == range[2]
    IN  IF start <= end THEN <<start, end>> ELSE <<end, start>>

\* for x in x_min..=x_max { write!(f, ...) }; writeln!(f)
render_row(s, x_min, x_max, y) ==
    [i \in 1..(x_max - x_min + 1) |->
        IF get(s, x_min + (i - 1), y) THEN "◼" ELSE "◻"] \o <<"\n">>

\* for y in (y_min..=y_max).rev(), from the row y down.
RECURSIVE render_rows(_, _, _, _, _)
render_rows(s, x_min, x_max, y_min, y) ==
    IF y < y_min THEN << >>
    ELSE render_row(s, x_min, x_max, y)
            \o render_rows(s, x_min, x_max, y_min, y - 1)

\* Viewport::new(x_range, y_range).render(game).to_string()
render(s, x_range, y_range) ==
    LET x_bounds == ordered_bounds(x_range)
        y_bounds == ordered_bounds(y_range)
    IN  render_rows(s, x_bounds[1], x_bounds[2], y_bounds[1], y_bounds[2])

(***************************************************************************)
(* The state machine.  state, history: the board.  pc: "ready", or         *)
(* "panicked" once a call has panicked.  op, ret: the last call and what   *)
(* it returned ("none" for a call that returns nothing).  args: the         *)
(* arguments of the last call.  out: the buffer or the text the last call  *)
(* returned.  baseline: a second value of type GameOfLife, a clone taken   *)
(* of the board.                                                           *)
(*                                                                         *)
(* Records of the run, read by the properties only:                        *)
(*   gens        the generations G0, G1, ... the latest run of ticks has   *)
(*               produced, up to the one the board is at: an edit starts   *)
(*               it again, a tick appends, an undo drops the last one;     *)
(*   nTicks      the calls of tick so far;                                 *)
(*   nEdits      the calls of set, unset, toggle and clear so far;         *)
(*   undoOk      the calls of undo since the last tick that returned true; *)
(*   undoFail    the calls of undo since the last tick that returned false;*)
(*   ticksClean  no call of undo came before any of the ticks so far;      *)
(*   preTick     <<s>>, s the live-cell set the last tick found, while     *)
(*               only edits and queries have followed that tick; << >>     *)
(*               before the first tick and from an undo on;                *)
(*   undone      <<r>>, r.op the call before and r.state, r.history the    *)
(*               board before the last call, if that was an undo that      *)
(*               returned true and found preTick = <<s>>; << >> otherwise. *)
(***************************************************************************)
VARIABLES state, history, pc, op, args, ret, out, baseline,
          gens, nTicks, nEdits, undoOk, undoFail, ticksClean,
          preTick, undone

vars == <<state, history, pc, op, args, ret, out, baseline,
          gens, nTicks, nEdits, undoOk, undoFail, ticksClean,
          preTick, undone>>

Min(a, b) == IF a <= b THEN a ELSE b

Last(s) == s[Len(s)]

BoolStr(b) == IF b THEN "true" ELSE "false"

\* The builds of the crate: overflow checks on (debug) or off (release).
Builds == {"debug", "release"}

\* The coordinates Spec edits.
Xs == 0..MaxX

Ys == {0, 1}

\* A board that holds the cells `cells` and has not been ticked, and a clone
\* of it:  let mut game = ...;  let baseline = game.clone();
InitWith(live) ==
    /\ state = live
    /\ history = new.history
    /\ pc = "ready"
    /\ op = "new"
    /\ args = << >>
    /\ ret = "none"
    /\ out = << >>
    /\ baseline = clone(live, new.history)
    /\ gens = <<live>>
    /\ nTicks = 0
    /\ nEdits = 0
    /\ undoOk = 0
    /\ undoFail = 0
    /\ ticksClean = TRUE
    /\ preTick = << >>
    /\ undone = << >>

\* GameOfLife::new()
Init == InitWith(new.state)

\* What an edit (set, unset, toggle, clear) leaves alone, and its records.
Edited(name, a, s, r) ==
    /\ pc = "ready"
    /\ nEdits < MaxEdits
    /\ state' = s
    /\ op' = name
    /\ args' = a
    /\ ret' = r
    /\ out' = << >>
    /\ gens' = <<s>>
    /\ nEdits' = nEdits + 1
    /\ undone' = << >>
    /\ UNCHANGED <<history, pc, baseline, nTicks, undoOk, undoFail, ticksClean,
                   preTick>>

Set(x, y) == Edited("set", <<x, y>>, set(state, x, y), "none")

Unset(x, y) == Edited("unset", <<x, y>>, unset(state, x, y), "none")

Toggle(x, y) ==
    Edited("toggle", <<x, y>>, toggle(state, x, y).state,
           BoolStr(toggle(state, x, y).ret))

Clear == Edited("clear", << >>, clear(state), "none")

\* tick, at most `limit` times.  The snapshot is taken first; a debug build
\* then panics at the first overflowing sum, before self.state is assigned.
Tick(limit) ==
    /\ pc = "ready"
    /\ nTicks < limit
    /\ \E build \in Builds :
        IF build = "debug" /\ tick_overflows(state)
        THEN /\ pc' = "panicked"
             /\ UNCHANGED <<state, gens>>
        ELSE /\ pc' = pc
             /\ state' = tick_state(state)
             /\ gens' = SubSeq(gens, 1, Len(gens) - 1) \o <<state, state'>>
    /\ history' = snapshot(history, state)
    /\ op' = "tick"
    /\ args' = << >>
    /\ ret' = "none"
    /\ out' = << >>
    /\ nTicks' = nTicks + 1
    /\ undoOk' = 0
    /\ undoFail' = 0
    /\ ticksClean' = (ticksClean /\ undoOk = 0 /\ undoFail = 0)
    /\ preTick' = <<state>>
    /\ undone' = << >>
    /\ UNCHANGED <<baseline, nEdits>>

\* undo; on an empty history at most MaxFailedUndos times in a row.
Undo ==
    /\ pc = "ready"
    /\ can_undo(history) \/ undoFail < MaxFailedUndos
    /\ LET r == undo(state, history)
       IN  /\ state' = r.state
           /\ history' = r.history
           /\ ret' = BoolStr(r.ret)
           /\ gens' = IF ~r.ret THEN gens
                      ELSE IF Len(gens) > 1 THEN SubSeq(gens, 1, Len(gens) - 1)
                      ELSE <<r.state>>
           /\ undoOk' = IF r.ret THEN undoOk + 1 ELSE undoOk
           /\ undoFail' = IF r.ret THEN undoFail ELSE undoFail + 1
           /\ undone' = IF r.ret /\ preTick # << >>
                         THEN <<[op |-> op, state |-> state, history |-> history]>>
                         ELSE << >>
    /\ preTick' = << >>
    /\ op' = "undo"
    /\ args' = << >>
    /\ out' = << >>
    /\ UNCHANGED <<pc, baseline, nTicks, nEdits, ticksClean>>

Next ==
    \/ \E x \in Xs, y \in Ys : Set(x, y)
    \/ \E x \in Xs, y \in Ys : Unset(x, y)
    \/ \E x \in Xs, y \in Ys : Toggle(x, y)
    \/ Clear
    \/ Tick(MaxTicks)
    \/ Undo

Spec == Init /\ [][Next]_vars

(***************************************************************************)
(* The patterns of the tests.  A row of ASCII art is the sequence of its   *)
(* characters; row y, column x (both from 0) is the cell (x, y).           *)
(***************************************************************************)
LiveChars == {"#", "O", "o", "X"}

pattern_from_ascii(rows) ==
    UNION { { <<x - 1, y - 1>> : x \in {i \in 1..Len(rows[y]) : rows[y][i] \in LiveChars} } :
            y \in 1..Len(rows) }

blinker ==
    pattern_from_ascii(<<
        <<".", "#", ".">>,
        <<".", "#", ".">>,
        <<".", "#", ".">> >>)

square ==
    pattern_from_ascii(<<
        <<"#", "#">>,
        <<"#", "#">> >>)

tub ==
    pattern_from_ascii(<<
        <<".", "#", ".">>,
        <<"#", ".", "#">>,
        <<".", "#", ".">> >>)

toad ==
    pattern_from_ascii(<<
        <<".", "#", "#", "#">>,
        <<"#", "#", "#", ".">> >>)

beacon ==
    pattern_from_ascii(<<
        <<"#", "#", ".", ".">>,
        <<"#", "#", ".", ".">>,
        <<".", ".", "#", "#">>,
        <<".", ".", "#", "#">> >>)

pulsar ==
    pattern_from_ascii(<<
        <<".", ".", "#", "#", "#", ".", ".", ".", "#", "#", "#", ".", ".">>,
        <<".", ".", ".", ".", ".", ".", ".", ".", ".", ".", ".", ".", ".">>,
        <<"#", ".", ".", ".", ".", "#", ".", "#", ".", ".", ".", ".", "#">>,
        <<"#", ".", ".", ".", ".", "#", ".", "#", ".", ".", ".", ".", "#">>,
        <<"#", ".", ".", ".", ".", "#", ".", "#", ".", ".", ".", ".", "#">>,
        <<".", ".", "#", "#", "#", ".", ".", ".", "#", "#", "#", ".", ".">>,
        <<".", ".", ".", ".", ".", ".", ".", ".", ".", ".", ".", ".", ".">>,
        <<".", ".", "#", "#", "#", ".", ".", ".", "#", "#", "#", ".", ".">>,
        <<"#", ".", ".", ".", ".", "#", ".", "#", ".", ".", ".", ".", "#">>,
        <<"#", ".", ".", ".", ".", "#", ".", "#", ".", ".", ".", ".", "#">>,
        <<"#", ".", ".", ".", ".", "#", ".", "#", ".", ".", ".", ".", "#">>,
        <<".", ".", ".", ".", ".", ".", ".", ".", ".", ".", ".", ".", ".">>,
        <<".", ".", "#", "#", "#", ".", ".", ".", "#", "#", "#", ".", ".">> >>)

pentadecathlon ==
    pattern_from_ascii(<<
        <<".", ".", "#", ".", ".">>,
        <<".", "#", ".", "#", ".">>,
        <<"#", ".", ".", ".", "#">>,
        <<"#", ".", ".", ".", "#">>,
        <<"#", ".", ".", ".", "#">>,
        <<"#", ".", ".", ".", "#">>,
        <<"#", ".", ".", ".", "#">>,
        <<"#", ".", ".", ".", "#">>,
        <<".", "#", ".", "#", ".">>,
        <<".", ".", "#", ".", ".">> >>)

\* The blinker the driver (main) sets.
main_blinker == set(set(set(new.state, 1, 1), 2, 1), 3, 1)

\* A glider: no two of its generations are the same live-cell set.
Glider == {<<1, 0>>, <<2, 1>>, <<0, 2>>, <<1, 2>>, <<2, 2>>}

(***************************************************************************)
(* SpecTick: runs of ticks from every board of a small window.            *)
(***************************************************************************)
TickBoards == SUBSET ((0..MaxTickX) \X {0, 1, 2})

InitTick == \E live \in TickBoards : InitWith(live)

NextTick == Tick(MaxTicks)

SpecTick == InitTick /\ [][NextTick]_vars

(***************************************************************************)
(* SpecLong: runs of ticks long enough to fill the history and evict from  *)
(* it, each followed by a run of undos.                                    *)
(***************************************************************************)
SeedsLong == {Glider}

InitLong == \E live \in SeedsLong : InitWith(live)

\* An edit between two of the first ticks.
EditLong ==
    /\ nEdits < MaxEditsLong
    /\ nTicks <= EditTicksLong
    /\ Toggle(2, 1)

TickLong ==
    /\ ticksClean
    /\ undoOk = 0
    /\ undoFail = 0
    /\ Tick(HISTORY_LIMIT + ExtraTicksLong)

\* undo, tick: the tick that was just undone is made again, and the run
\* ends there.
ReTickLong ==
    /\ op = "undo"
    /\ undone # << >>
    /\ Tick(HISTORY_LIMIT + ExtraTicksLong)

UndoLong ==
    /\ ticksClean
    /\ Undo

NextLong ==
    \/ EditLong
    \/ TickLong
    \/ ReTickLong
    \/ UndoLong

SpecLong == InitLong /\ [][NextLong]_vars

(***************************************************************************)
(* SpecOsc: the still lifes and oscillators of the tests, ticked and       *)
(* undone.                                                                 *)
(***************************************************************************)
StillLifes == {square, tub}

\* The oscillators with the periods the tests state.
Oscillators ==
    { [cells |-> blinker, period |-> 2],
      [cells |-> main_blinker, period |-> 2],
      [cells |-> toad, period |-> 2],
      [cells |-> beacon, period |-> 2],
      [cells |-> pulsar, period |-> 3],
      [cells |-> pentadecathlon, period |-> 15] }

SeedsOsc == StillLifes \cup {o.cells : o \in Oscillators}

InitOsc == \E live \in SeedsOsc : InitWith(live)

NextOsc ==
    \/ Tick(MaxTicksOsc)
    \/ Undo

SpecOsc == InitOsc /\ [][NextOsc]_vars

(***************************************************************************)
(* The rule table applied to the plane, to compare tick with.  A cell's    *)
(* live Moore neighbours are found among the live cells, by their distance *)
(* from the cell.  A coordinate further than one step from every live cell *)
(* is dead with no live neighbour and stays dead, so the scan covers the   *)
(* coordinates within two steps of a live cell.                            *)
(***************************************************************************)
Near(a, b) ==
    \/ a = b
    \/ b < I32_MAX /\ a = b + 1
    \/ b > I32_MIN /\ a = b - 1

MooreNeighbours(s, c) == {l \in s : l # c /\ Near(l[1], c[1]) /\ Near(l[2], c[2])}

AliveAfter(s, c) ==
    \/ c \in s /\ Cardinality(MooreNeighbours(s, c)) \in {2, 3}
    \/ c \notin s /\ Cardinality(MooreNeighbours(s, c)) = 3

Around(v) ==
    {v} \cup {v + d : d \in {e \in 1..2 : v <= I32_MAX - e}}
        \cup {v - d : d \in {e \in 1..2 : v >= I32_MIN + e}}

Plane(s) == (UNION {Around(c[1]) : c \in s}) \X (UNION {Around(c[2]) : c \in s})

PlaneRule(s) == {c \in Plane(s) : AliveAfter(s, c)}

\* The board as a value of type GameOfLife.
game == clone(state, history)

\* How many ticks the board is past the first of `gens`.
Generation == Len(gens) - 1

(***************************************************************************)
(* The claims.                                                             *)
(***************************************************************************)

\* C1: after tick() a coordinate is alive iff, in the board before the tick,
\* it was alive with 2 or 3 live Moore neighbours or dead with exactly 3: tick
\* gives the live-cell set the rule table gives on the whole plane, the empty
\* board included.
TickMatchesRuleTable ==
    [][(op' = "tick" /\ pc' = "ready") => state' = PlaneRule(state)]_vars

\* C1, witness: a tick in which a cell was born, a cell survived, a cell died
\* of underpopulation and a cell died of overpopulation.
TickBornSurvivedDied ==
    /\ op = "tick"
    /\ Len(gens) >= 2
    /\ LET before == gens[Len(gens) - 1]
       IN  /\ state \ before # {}
           /\ state \cap before # {}
           /\ \E c \in before \ state : Cardinality(MooreNeighbours(before, c)) <= 1
           /\ \E c \in before \ state : Cardinality(MooreNeighbours(before, c)) >= 4

\* C2: a == b holds iff the live-cell sets of a and b are identical, whatever
\* their histories: here a is the clone taken of the pattern before any tick
\* and b the board.
EqualityIgnoresHistory == eq(baseline, game) <=> (baseline.state = state)

\* C3: tick() immediately followed by undo(): the undo returns true and the
\* live-cell set is the one the board had before the tick, at every history
\* length from 0 to HISTORY_LIMIT.
TickThenUndoRestores ==
    [][(op = "tick" /\ op' = "undo") =>
            (ret' = "true" /\ state' = gens[Len(gens) - 1])]_vars

\* C3, witness: a tick on a full history (it evicted) and then an undo.
UndoneTickOnFullHistory ==
    /\ op = "undo"
    /\ ret = "true"
    /\ undoOk = 1
    /\ nTicks > HISTORY_LIMIT
    /\ Len(history) = HISTORY_LIMIT - 1
    /\ state = Last(gens)

\* C4: undo() returns true exactly when can_undo() was true before the call;
\* it then removes the newest snapshot and the live-cell set becomes that
\* snapshot.  On an empty history it returns false and leaves the live-cell
\* set and the history as they were.  It never panics.
UndoContract ==
    [][op' = "undo" =>
        /\ pc' = "ready"
        /\ IF can_undo(history)
           THEN /\ ret' = "true"
                /\ state' = history[Len(history)]
                /\ history' = SubSeq(history, 1, Len(history) - 1)
           ELSE /\ ret' = "false"
                /\ state' = state
                /\ history' = history]_vars

\* C4, witness: an undo that returned false on a board with live cells, after
\* an undo that returned true.
UndoFailedAfterUndo ==
    /\ op = "undo"
    /\ ret = "false"
    /\ undoOk >= 1
    /\ state # {}

\* C5: the history never holds more than HISTORY_LIMIT snapshots.
HistoryBounded == Len(history) <= HISTORY_LIMIT

\* C5, witness: a full history after more than HISTORY_LIMIT ticks.
HistoryFullAfterEviction ==
    /\ Len(history) = HISTORY_LIMIT
    /\ nTicks > HISTORY_LIMIT
    /\ op = "tick"

\* C6: after n ticks from a new board with no undo among them, the undo calls
\* that follow return true exactly min(n, HISTORY_LIMIT) times, the first
\* ones; can_undo() is true until then and false afterwards, and every later
\* undo returns false.
UndoCountAfterTicks ==
    ticksClean =>
        /\ undoOk <= Min(nTicks, HISTORY_LIMIT)
        /\ can_undo(history) <=> (undoOk < Min(nTicks, HISTORY_LIMIT))
        /\ undoFail > 0 => undoOk = Min(nTicks, HISTORY_LIMIT)
        /\ (op = "undo" /\ ret = "false") => undoFail > 0
        /\ (op = "undo" /\ ret = "true") => undoFail = 0

\* C6, witness: more than HISTORY_LIMIT ticks, HISTORY_LIMIT undos that
\* returned true, and an undo that returned false.
UndoneToTheLimit ==
    /\ ticksClean
    /\ nTicks > HISTORY_LIMIT
    /\ undoOk = HISTORY_LIMIT
    /\ op = "undo"
    /\ ret = "false"

\* C7: with generations G0 .. Gn made by n ticks in a row, the k-th undo in a
\* row (1 <= k <= min(n, HISTORY_LIMIT)) leaves the live-cell set G(n-k): each
\* undo that returns true steps one generation back and shortens the history
\* by exactly one.
UndoWalksBackwards ==
    [][(op' = "undo" /\ ret' = "true" /\ Len(gens) > 1) =>
            /\ state' = gens[Len(gens) - 1]
            /\ Len(history') = Len(history) - 1]_vars

\* C7, witness: HISTORY_LIMIT undos in a row after more than HISTORY_LIMIT
\* ticks: the board is at generation n - HISTORY_LIMIT, not at G0.
WalkedBackToTheOldest ==
    /\ op = "undo"
    /\ ret = "true"
    /\ undoOk = HISTORY_LIMIT
    /\ nTicks > HISTORY_LIMIT
    /\ nEdits = 0
    /\ Generation = nTicks - HISTORY_LIMIT
    /\ state # gens[1]

\* C8: after clear() no cell is alive and the board compares equal to
\* GameOfLife::new().
ClearEqualsNew == op = "clear" => (state = {} /\ eq(game, new))

\* C9: each oscillator has exactly its stated period: its live-cell set is the
\* initial one after a number of ticks iff that number is a multiple of the
\* period; and the blinker at (1,1), (2,1), (3,1) is {(2,0), (2,1), (2,2)}
\* after one tick.
OscillatorPeriods ==
    /\ \A o \in Oscillators :
          baseline.state = o.cells =>
              ((state = o.cells) <=> (Generation % o.period = 0))
    /\ (baseline.state = main_blinker /\ Generation = 1) =>
          state = {<<2, 0>>, <<2, 1>>, <<2, 2>>}

\* C9, witness: the pentadecathlon back at its initial cells after 15 ticks.
PentadecathlonCameBack ==
    /\ baseline.state = pentadecathlon
    /\ op = "tick"
    /\ nTicks = 15
    /\ Generation = 15
    /\ state = pentadecathlon

\* C10: a still life (the 2x2 block, the tub) ticked k >= 1 times compares
\* equal (==) to a clone of the board taken before the first tick.
StillLifeEqualsClone ==
    (baseline.state \in StillLifes /\ Generation >= 1) => eq(game, baseline)

(***************************************************************************)
(* SpecEdge: ticks of boards whose live cells lie at the ends of the i32   *)
(* range.                                                                  *)
(***************************************************************************)
EdgeCells ==
    ({I32_MAX - 1, I32_MAX} \X {0, 1})
        \cup {<<I32_MAX, 2>>, <<0, I32_MIN>>, <<1, I32_MIN>>, <<I32_MIN, I32_MIN>>}

InitEdge == \E live \in SUBSET EdgeCells : InitWith(live)

NextEdge == Tick(MaxTicks)

SpecEdge == InitEdge /\ [][NextEdge]_vars

\* C11: tick() always succeeds, also on a board with a live cell whose x or y
\* is the least or the greatest i32: it does not panic, and no sum x + dx,
\* y + dy it computes overflows or wraps around.
TickNeverOverflows ==
    [][op' = "tick" => (pc' = "ready" /\ ~tick_overflows(state))]_vars

\* C12: toggle(x, y) returns the negation of get(x, y) as it was before the
\* call, get(x, y) after the call is the value returned, every other
\* coordinate keeps its liveness, and toggling the same cell twice in a row
\* restores the live-cell set.
ToggleFlipsOneCell ==
    [][op' = "toggle" =>
        LET x == args'[1]
            y == args'[2]
        IN  /\ ret' = BoolStr(~get(state, x, y))
            /\ BoolStr(get(state', x, y)) = ret'
            /\ state' \ {<<x, y>>} = state \ {<<x, y>>}
            /\ toggle(state', x, y).state = state]_vars

\* C12, witness: a toggle that found its cell alive on a board with another
\* live cell, after a tick.
ToggledACellOff ==
    /\ op = "toggle"
    /\ ret = "false"
    /\ state # {}
    /\ history # << >>

\* C13: set and unset change their target cell only (alive after set, dead
\* after unset, every other coordinate as before), and a second set, or
\* unset, of the same cell leaves the board as the first one left it.
SetUnsetIdempotent ==
    [][/\ op' = "set" =>
            /\ get(state', args'[1], args'[2])
            /\ state' \ {args'} = state \ {args'}
            /\ (op = "set" /\ args = args') => state' = state
       /\ op' = "unset" =>
            /\ ~get(state', args'[1], args'[2])
            /\ state' \ {args'} = state \ {args'}
            /\ (op = "unset" /\ args = args') => state' = state
       /\ op' \in {"set", "unset"} => history' = history]_vars

\* C13, witness: the last edit of a run was an unset, and it left live cells
\* on the board around its dead target cell.
UnsetTwice ==
    /\ op = "unset"
    /\ nEdits = MaxEdits
    /\ state # {}
    /\ ~get(state, args[1], args[2])
    /\ gens = <<state>>

(***************************************************************************)
(* SpecView: the queries cells, cells_at and render, on boards that were   *)
(* set up cell by cell and ticked.                                         *)
(***************************************************************************)
ViewCells == {<<0, 0>>, <<1, 0>>, <<0, 1>>, <<I32_MIN, 0>>}

\* The pairs (width, height) passed to cells and cells_at.
Sizes ==
    ((-1..MaxDim) \X (-1..MaxDim))
        \cup {<<BigDim, BigDim>>, <<BigDim, 0>>, <<0, BigDim>>,
              <<BigDim, -1>>, <<-1, BigDim>>}

\* The origins passed to cells_at.
Origins == {<<0, 0>>, <<-1, 1>>, <<I32_MAX, 0>>}

\* The endpoints of the ranges of a Viewport.
Ends == -1..MaxView

\* The queries the model calls.
Queries == {"get", "can_undo", "cells", "cells_at", "render"}

\* What a query (&self) leaves alone, and its records.  A query is made of
\* a board as an edit, a tick or an undo left it, not right after a query.
Queried(name, a, panic, r, result) ==
    /\ pc = "ready"
    /\ op \notin Queries
    /\ pc' = IF panic = "" THEN pc ELSE "panicked"
    /\ op' = name
    /\ args' = a
    /\ ret' = IF panic = "" THEN r ELSE panic
    /\ out' = result
    /\ UNCHANGED <<state, history, baseline,
                   gens, nTicks, nEdits, undoOk, undoFail, ticksClean,
                   preTick, undone>>

CellsAt(width, height, origin_x, origin_y) ==
    \E build \in Builds :
        LET r == cells_at(state, width, height, origin_x, origin_y, build)
        IN  Queried("cells_at", <<width, height, origin_x, origin_y>>,
                    r.panic, "none", r.cells)

Cells(width, height) ==
    \E build \in Builds :
        LET r == cells(state, width, height, build)
        IN  Queried("cells", <<width, height>>, r.panic, "none", r.cells)

Render(x_start, x_end, y_start, y_end) ==
    Queried("render", <<x_start, x_end, y_start, y_end>>, "", "none",
            render(state, <<x_start, x_end>>, <<y_start, y_end>>))

Get(x, y) == Queried("get", <<x, y>>, "", BoolStr(get(state, x, y)), << >>)

CanUndo == Queried("can_undo", << >>, "", BoolStr(can_undo(history)), << >>)

InitView == \E cells_set \in SUBSET ViewCells : InitWith(cells_set)

NextView ==
    \/ \E size \in Sizes, origin \in Origins :
            CellsAt(size[1], size[2], origin[1], origin[2])
    \/ \E size \in Sizes : Cells(size[1], size[2])
    \/ \E x_start \in Ends, x_end \in Ends, y_start \in Ends, y_end \in Ends :
            Render(x_start, x_end, y_start, y_end)
    \/ Tick(MaxTicks)

SpecView == InitView /\ [][NextView]_vars

\* The liveness of the cell (a + da, b + db) of the plane: no cell beyond
\* the i32 range is alive.
PlaneGet(s, a, da, b, db) ==
    /\ ~add_overflows(a, da)
    /\ ~add_overflows(b, db)
    /\ get(s, a + da, b + db)

\* C14: for every width >= 0 and height >= 0, also those whose product is
\* beyond i32, and every origin, also one for which origin + offset passes
\* the i32 limit, cells_at returns a buffer of exactly width * height
\* entries, entry y * width + x being 1 iff the cell (origin_x + x,
\* origin_y + y) is alive and 0 otherwise; cells(width, height) is
\* cells_at(width, height, 0, 0).
CellsAtSerializesViewport ==
    [][/\ (op' = "cells_at" /\ args'[1] >= 0 /\ args'[2] >= 0) =>
            /\ pc' = "ready"
            /\ Len(out') = args'[1] * args'[2]
            /\ \A x \in 0..(args'[1] - 1), y \in 0..(args'[2] - 1) :
                    out'[y * args'[1] + x + 1] =
                        IF PlaneGet(state, args'[3], x, args'[4], y)
                        THEN 1 ELSE 0
       /\ (op' = "cells" /\ args'[1] >= 0 /\ args'[2] >= 0) =>
            \E build \in Builds :
                LET r == cells_at(state, args'[1], args'[2], 0, 0, build)
                IN  /\ r.panic = ""
                    /\ pc' = "ready"
                    /\ out' = r.cells]_vars

\* C15: cells_at and cells, called with a negative width or a negative
\* height, fail with the assertion's panic: no buffer is returned, the
\* negative dimension is not taken as zero, and the live-cell set and the
\* history are as before the call.
NegativeSizePanics ==
    [][(op' \in {"cells", "cells_at"} /\ (args'[1] < 0 \/ args'[2] < 0)) =>
            /\ pc' = "panicked"
            /\ ret' = "width and height must be non-negative"
            /\ out' = << >>
            /\ state' = state
            /\ history' = history]_vars

\* C15, witness: cells_at with a negative height and a width beyond the
\* square root of the i32 range has panicked on a ticked board that has
\* live cells.
PanickedOnNegativeHeight ==
    /\ pc = "panicked"
    /\ op = "cells_at"
    /\ args[1] = BigDim
    /\ args[2] < 0
    /\ state # {}
    /\ history # << >>

\* C16: a viewport renders one row per y from the greater bound down to the
\* lesser, each row one glyph per x from the lesser bound up to the greater
\* (the filled glyph iff the cell is alive) and then one line terminator;
\* the text is the same whichever way round the endpoints of a range are
\* given; rendering leaves the board as it was.
RenderRowsTopDown ==
    [][op' = "render" =>
        LET x_lo == Min(args'[1], args'[2])
            x_hi == IF args'[1] <= args'[2] THEN args'[2] ELSE args'[1]
            y_lo == Min(args'[3], args'[4])
            y_hi == IF args'[3] <= args'[4] THEN args'[4] ELSE args'[3]
            columns == x_hi - x_lo + 1
            rows == y_hi - y_lo + 1
        IN  /\ Len(out') = rows * (columns + 1)
            /\ \A r \in 0..(rows - 1) :
                /\ \A c \in 0..(columns - 1) :
                        out'[r * (columns + 1) + c + 1] =
                            IF get(state, x_lo + c, y_hi - r)
                            THEN "◼" ELSE "◻"
                /\ out'[r * (columns + 1) + columns + 1] = "\n"
            /\ out' = render(state, <<args'[2], args'[1]>>,
                                    <<args'[3], args'[4]>>)
            /\ out' = render(state, <<args'[1], args'[2]>>,
                                    <<args'[4], args'[3]>>)
            /\ state' = state
            /\ history' = history]_vars

\* C16, witness: a viewport given with both ranges the wrong way round has
\* rendered two rows or more, a live cell in the top row's first column.
RenderedReversedRanges ==
    /\ op = "render"
    /\ args[1] > args[2]
    /\ args[3] > args[4]
    /\ out[1] = "◼"
    /\ "◻" \in {out[i] : i \in 1..Len(out)}

\* The calls that edit the live cells.
Edits == {"set", "unset", "toggle", "clear"}

\* C17: each tick appends one snapshot, the live-cell set as it was before
\* the transition: it is the newest entry afterwards.  Below HISTORY_LIMIT
\* entries the history grows by one and keeps the older entries in order;
\* at HISTORY_LIMIT entries the oldest is dropped, the other
\* HISTORY_LIMIT - 1 keep their order and the length stays HISTORY_LIMIT.
TickAppendsSnapshot ==
    [][op' = "tick" =>
        /\ Last(history') = state
        /\ IF Len(history) < HISTORY_LIMIT
           THEN history' = Append(history, state)
           ELSE /\ Len(history') = HISTORY_LIMIT
                /\ \A i \in 1..(HISTORY_LIMIT - 1) : history'[i] = history[i + 1]]_vars

\* C17, witness: the last tick of a run from the glider found the history
\* full, with the generations 1, 2, ... in it, and left generation 2 or a
\* later one as the oldest entry.
TickedOnFullHistory ==
    /\ op = "tick"
    /\ ticksClean
    /\ nEdits = 0
    /\ nTicks = HISTORY_LIMIT + ExtraTicksLong
    /\ Len(history) = HISTORY_LIMIT
    /\ history[1] = gens[nTicks - HISTORY_LIMIT + 1]
    /\ history[1] # baseline.state

(***************************************************************************)
(* SpecFrame: edits, queries, ticks and undos interleaved on a new board,  *)
(* the edits and the queries on the cells (0, 0) and (1, 0).               *)
(***************************************************************************)
FrameCells == {<<0, 0>>, <<1, 0>>}

NextFrame ==
    \/ \E c \in FrameCells : Set(c[1], c[2])
    \/ \E c \in FrameCells : Unset(c[1], c[2])
    \/ \E c \in FrameCells : Toggle(c[1], c[2])
    \/ Clear
    \/ \E c \in FrameCells : Get(c[1], c[2])
    \/ CanUndo
    \/ Cells(2, 1)
    \/ CellsAt(2, 1, -1, 0)
    \/ Render(0, 1, 0, 0)
    \/ Tick(MaxTicks)
    \/ Undo

SpecFrame == Init /\ [][NextFrame]_vars

\* C18: set, unset, toggle and clear, and the queries get, cells, cells_at
\* and can_undo, leave the history as it is, and an undo that follows a tick
\* and any edits made after that tick returns true, restores the live-cell
\* set the tick found and so discards the edits.
EditsKeepHistory ==
    [][/\ op' \in Edits \cup Queries => history' = history
       /\ op' \in Queries => state' = state
       /\ (op' = "undo" /\ preTick # << >>) =>
            /\ ret' = "true"
            /\ state' = preTick[1]
            /\ history' = SubSeq(history, 1, Len(history) - 1)]_vars

\* C18, witness: an undo has discarded edits made after a tick: the board it
\* found was neither the one the tick had found nor the one the tick had
\* left.
UndoDiscardedEdits ==
    /\ op = "undo"
    /\ undone # << >>
    /\ undone[1].op \in Edits
    /\ undone[1].state # state
    /\ undone[1].state # tick_state(state)
    /\ state # {}

\* C19: when the last call that changed the board was a tick, undo followed
\* by tick leaves the live-cell set and the history, its length and its
\* entries, as they were before the undo, also on a history of HISTORY_LIMIT
\* entries.
ReTickReproduces ==
    [][(op = "undo" /\ undone # << >> /\ undone[1].op = "tick" /\ op' = "tick") =>
            /\ pc' = "ready"
            /\ state' = undone[1].state
            /\ history' = undone[1].history]_vars

\* C19, witness: a tick made again after its undo, on a history that was
\* full and had evicted snapshots before the undo.
ReTickedOnFullHistory ==
    /\ op = "tick"
    /\ ~ticksClean
    /\ nTicks > HISTORY_LIMIT + 1
    /\ Len(history) = HISTORY_LIMIT
    /\ history[1] # baseline.state

\* The least and the greatest of a non-empty set of integers.
MinOf(S) == CHOOSE m \in S : \A n \in S : m <= n

MaxOf(S) == CHOOSE m \in S : \A n \in S : m >= n

\* The coordinates v with lo - 1 <= v <= hi + 1, within i32.
Widened(v, lo, hi) ==
    /\ (lo = I32_MIN \/ v >= lo - 1)
    /\ (hi = I32_MAX \/ v <= hi + 1)

\* C20: after any tick every live cell is one of the 8 Moore neighbours of a
\* cell that was alive before the tick, so the bounding box of the live cells
\* grows by at most 1 in each direction, and a board with fewer than 2 live
\* cells becomes empty.
GrowthBoundedByFrontier ==
    [][(op' = "tick" /\ pc' = "ready") =>
        /\ \A c \in state' : MooreNeighbours(state, c) # {}
        /\ \A c \in state' :
            /\ Widened(c[1], MinOf({l[1] : l \in state}), MaxOf({l[1] : l \in state}))
            /\ Widened(c[2], MinOf({l[2] : l \in state}), MaxOf({l[2] : l \in state}))
        /\ Cardinality(state) < 2 => state' = {}]_vars

=============================================================================
